---- MODULE Spec2Model ----
(***************************************************************************)
(* A model of harper-core's pattern combinators (Invert, RepeatingPattern, *)
(* WhitespacePattern, IndefiniteArticle) and of the AdjectiveOfA linter.   *)
(* Indices, cursors and span offsets are 0-based as in the Rust source;    *)
(* TLA+ sequences are 1-based, so element i of a slice is seq[i + 1].      *)
(***************************************************************************)
EXTENDS Integers, Sequences, FiniteSets, TLC

VARIABLES
    document,       \* the Document handed to lint / whose tokens are matched
    pattern,        \* the pattern whose matches() is running
    tok_cursor,     \* RepeatingPattern::matches: let mut tok_cursor
    repetition,     \* RepeatingPattern::matches: let mut repetition
    match_lens,     \* history: the lengths of the completed repetitions
    last_inner,     \* history: what the inner pattern returned last
    adj_iter,       \* lint: how many adjective indices the for loop has taken
    lints,          \* lint: let mut lints
    pc,             \* "matches" | "lint" | "done" | "panicked"
    result,         \* the value matches() returned
    calls,          \* history: the document and the lints of each finished lint
    fixed           \* history: the suggestion applied, if one has been

vars == <<document, pattern, tok_cursor, repetition, match_lens, last_inner,
          adj_iter, lints, pc, result, calls, fixed>>

----------------------------------------------------------------------------
(* Bounds of the model *)

MaxLen == 3

MaxReps == 2

MaxTail == 4

----------------------------------------------------------------------------
(* Characters and strings: a string is a sequence of one-character strings *)

Uppers == <<"A","B","C","D","E","F","G","H","I","J","K","L","M",
            "N","O","P","Q","R","S","T","U","V","W","X","Y","Z">>

Lowers == <<"a","b","c","d","e","f","g","h","i","j","k","l","m",
            "n","o","p","q","r","s","t","u","v","w","x","y","z">>

\* the lower-case letter of each upper-case ASCII letter
AsciiLower ==
    [c \in {Uppers[k] : k \in DOMAIN Uppers} |->
        Lowers[CHOOSE k \in DOMAIN Uppers : Uppers[k] = c]]

to_ascii_lowercase(c) == IF c \in DOMAIN AsciiLower THEN AsciiLower[c] ELSE c

\* str::to_lowercase; on the ASCII text of the documents here it is the
\* ASCII lower-casing
to_lowercase(s) == [k \in 1..Len(s) |-> to_ascii_lowercase(s[k])]

eq_ignore_ascii_case(s, t) ==
    /\ Len(s) = Len(t)
    /\ \A k \in 1..Len(s) : to_ascii_lowercase(s[k]) = to_ascii_lowercase(t[k])

ends_with(s, suffix) ==
    /\ Len(suffix) <= Len(s)
    /\ SubSeq(s, Len(s) - Len(suffix) + 1, Len(s)) = suffix

----------------------------------------------------------------------------
(* Document, Token, Span (the collaborators the core consumes) *)

Lexeme(text, kind, adjective, noun, verb) ==
    [text |-> text, kind |-> kind, adjective |-> adjective,
     noun |-> noun, verb |-> verb]

RECURSIVE Tokenize(_, _)
\* The tokens of the lexemes, each with the span of its text in the source.
Tokenize(lexemes, offset) ==
    IF lexemes = <<>> THEN <<>>
    ELSE LET l == Head(lexemes)
         IN  <<[span |-> [start |-> offset, end |-> offset + Len(l.text)],
                kind |-> l.kind, adjective |-> l.adjective,
                noun |-> l.noun, verb |-> l.verb]>>
             \o Tokenize(Tail(lexemes), offset + Len(l.text))

RECURSIVE Concat(_)
Concat(lexemes) ==
    IF lexemes = <<>> THEN <<>>
    ELSE Head(lexemes).text \o Concat(Tail(lexemes))

NewDocument(lexemes) ==
    [source |-> Concat(lexemes), tokens |-> Tokenize(lexemes, 0)]

is_whitespace(token) == token.kind \in {"Space", "Newline"}

is_word(token) == token.kind = "Word"

is_noun(token) == token.kind = "Word" /\ token.noun

is_verb(token) == token.kind = "Word" /\ token.verb

is_adjective(token) == token.kind = "Word" /\ token.adjective

\* Option<Token> as a sequence of at most one token
get_token(doc, index) ==
    IF index >= 0 /\ index < Len(doc.tokens) THEN <<doc.tokens[index + 1]>> ELSE <<>>

get_span_content(source, span) == SubSeq(source, span.start + 1, span.end)

get_span_content_str(source, span) == get_span_content(source, span)

RECURSIVE adjective_indices_from(_, _)
adjective_indices_from(tokens, k) ==
    IF k >= Len(tokens) THEN <<>>
    ELSE (IF is_adjective(tokens[k + 1]) THEN <<k>> ELSE <<>>)
         \o adjective_indices_from(tokens, k + 1)

\* the ascending sequence of the indices of the tokens that are adjectives
iter_adjective_indices(doc) == adjective_indices_from(doc.tokens, 0)

----------------------------------------------------------------------------
(* Pattern results: Option<usize>, or the panic of an out-of-range slice *)

None == [tag |-> "None", len |-> 0]

Some(n) == [tag |-> "Some", len |-> n]

Panic == [tag |-> "Panic", len |-> 0]

\* the history's value before the inner pattern has been called
NotCalled == [tag |-> "NotCalled", len |-> 0]

is_some(r) == r.tag = "Some"

\* &tokens[cursor..]
SliceFrom(tokens, cursor) == SubSeq(tokens, cursor + 1, Len(tokens))

----------------------------------------------------------------------------
(* The patterns.  A pattern is a leaf under a chain of unary combinators:  *)
(* wraps[1] wraps the leaf, wraps[Len(wraps)] is the outermost combinator. *)

\* WordSet::new(&["a", "an"])
IndefiniteArticleWords == {<<"a">>, <<"a", "n">>}

\* WordSet::matches: one leading word token whose lower-cased text is in the set
WordSetMatches(words, tokens, source) ==
    IF tokens = <<>> THEN None
    ELSE IF ~is_word(tokens[1]) THEN None
    ELSE IF to_lowercase(get_span_content(source, tokens[1].span)) \in words
         THEN Some(1)
         ELSE None

IndefiniteArticleMatches(tokens, source) ==
    WordSetMatches(IndefiniteArticleWords, tokens, source)

RECURSIVE position_not_whitespace(_, _)
\* tokens.iter().position(|t| !t.kind.is_whitespace()).unwrap_or(tokens.len())
position_not_whitespace(tokens, from) ==
    IF from >= Len(tokens) THEN Len(tokens)
    ELSE IF ~is_whitespace(tokens[from + 1]) THEN from
    ELSE position_not_whitespace(tokens, from + 1)

WhitespacePatternMatches(tokens, source) ==
    LET count == position_not_whitespace(tokens, 0)
    IN  IF count = 0 THEN None ELSE Some(count)

\* A Box<dyn Pattern> of which only the results are known: resp[n + 1] is what
\* it returns on a slice of n tokens.
DynPatternMatches(resp, tokens, source) == resp[Len(tokens) + 1]

LeafMatches(leaf, tokens, source) ==
    CASE leaf.t = "WhitespacePattern" -> WhitespacePatternMatches(tokens, source)
      [] leaf.t = "IndefiniteArticle" -> IndefiniteArticleMatches(tokens, source)
      [] OTHER -> DynPatternMatches(leaf.resp, tokens, source)

\* Invert::matches with its two branches exchanged
InvertMatchesNotInverted(inner_result) ==
    IF inner_result = Panic THEN Panic
    ELSE IF is_some(inner_result) THEN Some(1)
    ELSE None

\* Invert::matches, given what self.inner.matches(tokens, source) did
InvertMatches(inner_result) ==
    IF inner_result = Panic THEN Panic
    ELSE IF is_some(inner_result) THEN None
    ELSE Some(1)

\* The loop body returning the number of repetitions instead of the cursor
RepeatingLoopBodyCountsReps(match_len, cursor, reps, required_repetitions) ==
    IF match_len = Panic
    THEN [returns |-> TRUE, value |-> Panic, tok_cursor |-> cursor, repetition |-> reps]
    ELSE IF is_some(match_len)
    THEN IF match_len.len = 0
         THEN [returns |-> TRUE, value |-> Some(cursor),
               tok_cursor |-> cursor, repetition |-> reps]
         ELSE [returns |-> FALSE, value |-> None,
               tok_cursor |-> cursor + match_len.len, repetition |-> reps + 1]
    ELSE IF reps >= required_repetitions
    THEN [returns |-> TRUE, value |-> Some(reps),
          tok_cursor |-> cursor, repetition |-> reps]
    ELSE [returns |-> TRUE, value |-> None,
          tok_cursor |-> cursor, repetition |-> reps]

\* The loop body with `repetition > self.required_repetitions`
RepeatingLoopBodyOffByOne(match_len, cursor, reps, required_repetitions) ==
    IF match_len = Panic
    THEN [returns |-> TRUE, value |-> Panic, tok_cursor |-> cursor, repetition |-> reps]
    ELSE IF is_some(match_len)
    THEN IF match_len.len = 0
         THEN [returns |-> TRUE, value |-> Some(cursor),
               tok_cursor |-> cursor, repetition |-> reps]
         ELSE [returns |-> FALSE, value |-> None,
               tok_cursor |-> cursor + match_len.len, repetition |-> reps + 1]
    ELSE IF reps > required_repetitions
    THEN [returns |-> TRUE, value |-> Some(cursor),
          tok_cursor |-> cursor, repetition |-> reps]
    ELSE [returns |-> TRUE, value |-> None,
          tok_cursor |-> cursor, repetition |-> reps]

\* The loop body with a zero-length match held to the required repetitions
RepeatingLoopBodyZeroChecksReps(match_len, cursor, reps, required_repetitions) ==
    IF match_len = Panic
    THEN [returns |-> TRUE, value |-> Panic, tok_cursor |-> cursor, repetition |-> reps]
    ELSE IF is_some(match_len) /\ match_len.len # 0
    THEN [returns |-> FALSE, value |-> None,
          tok_cursor |-> cursor + match_len.len, repetition |-> reps + 1]
    ELSE IF reps >= required_repetitions
    THEN [returns |-> TRUE, value |-> Some(cursor),
          tok_cursor |-> cursor, repetition |-> reps]
    ELSE [returns |-> TRUE, value |-> None,
          tok_cursor |-> cursor, repetition |-> reps]

\* The body of RepeatingPattern::matches' loop after the inner call: whether
\* the function returns, with what, and the two counters afterwards.
RepeatingLoopBody(match_len, cursor, reps, required_repetitions) ==
    IF match_len = Panic
    THEN [returns |-> TRUE, value |-> Panic, tok_cursor |-> cursor, repetition |-> reps]
    ELSE IF is_some(match_len)
    THEN IF match_len.len = 0
         THEN [returns |-> TRUE, value |-> Some(cursor),
               tok_cursor |-> cursor, repetition |-> reps]
         ELSE [returns |-> FALSE, value |-> None,
               tok_cursor |-> cursor + match_len.len, repetition |-> reps + 1]
    ELSE IF reps >= required_repetitions
    THEN [returns |-> TRUE, value |-> Some(cursor),
          tok_cursor |-> cursor, repetition |-> reps]
    ELSE [returns |-> TRUE, value |-> None,
          tok_cursor |-> cursor, repetition |-> reps]

RECURSIVE Matches(_, _, _, _)
RECURSIVE RepeatingPatternLoop(_, _, _, _, _, _)

\* What the inner pattern of the combinator at `depth` returns on &tokens[cursor..];
\* slicing beyond the end of the tokens panics.
InnerAtCursor(p, depth, tokens, source, cursor) ==
    IF cursor > Len(tokens) THEN Panic
    ELSE Matches(p, depth - 1, SliceFrom(tokens, cursor), source)

\* RepeatingPattern::matches from the state (cursor, reps) of its loop
RepeatingPatternLoop(p, depth, tokens, source, cursor, reps) ==
    LET step == RepeatingLoopBody(InnerAtCursor(p, depth, tokens, source, cursor),
                                  cursor, reps, p.wraps[depth].required_repetitions)
    IN  IF step.returns THEN step.value
        ELSE RepeatingPatternLoop(p, depth, tokens, source,
                                  step.tok_cursor, step.repetition)

\* matches() of the pattern made of the leaf and its first `depth` combinators
Matches(p, depth, tokens, source) ==
    IF depth = 0 THEN LeafMatches(p.leaf, tokens, source)
    ELSE IF p.wraps[depth].t = "Invert"
    THEN InvertMatches(Matches(p, depth - 1, tokens, source))
    ELSE RepeatingPatternLoop(p, depth, tokens, source, 0, 0)

----------------------------------------------------------------------------
(* The inputs of the pattern engine *)

Space1 == Lexeme(<<" ">>, "Space", FALSE, FALSE, FALSE)

LexA == Lexeme(<<"a">>, "Word", FALSE, FALSE, FALSE)

LexAn == Lexeme(<<"A", "n">>, "Word", FALSE, FALSE, FALSE)

LexThe == Lexeme(<<"t", "h", "e">>, "Word", FALSE, FALSE, FALSE)

PatternLexemes == {Space1, LexA, LexAn, LexThe}

SeqsUpTo(S, n) == UNION {[1..k -> S] : k \in 0..n}

WhitespacePattern == [t |-> "WhitespacePattern", resp |-> <<>>]

IndefiniteArticle == [t |-> "IndefiniteArticle", resp |-> <<>>]

DynPattern(resp) == [t |-> "dyn Pattern", resp |-> resp]

Invert == [t |-> "Invert", required_repetitions |-> 0]

RepeatingPattern(k) == [t |-> "RepeatingPattern", required_repetitions |-> k]

Combinators == {Invert} \cup {RepeatingPattern(k) : k \in 0..MaxReps}

\* no combinator, one, or one inside another
CombinatorChains ==
    {<<>>} \cup {<<w>> : w \in Combinators}
           \cup {<<w, o>> : w \in Combinators, o \in Combinators}

\* What a dyn Pattern may return on a slice of n tokens: nothing, or a match
\* of 0..n tokens, or (breaking its contract) of one token more than it has.
DynResults(n) == {None} \cup {Some(m) : m \in 0..(n + 1)}

DynResponses(n) ==
    {resp \in [1..(n + 1) -> DynResults(n)] :
        \A k \in 1..(n + 1) : resp[k] \in DynResults(k - 1)}

\* a document of n words, for the patterns that do not read their tokens
WordsDocument(n) == NewDocument([k \in 1..n |-> LexThe])

\* a built-in pattern under up to two combinators, on any short token sequence
BuiltinInput ==
    \E ls \in SeqsUpTo(PatternLexemes, MaxLen),
       l \in {WhitespacePattern, IndefiniteArticle},
       ws \in CombinatorChains :
        /\ document = NewDocument(ls)
        /\ pattern = [leaf |-> l, wraps |-> ws]

\* any dyn Pattern under one or two combinators
DynInput ==
    \E n \in 0..MaxLen :
        \E resp \in DynResponses(n), ws \in CombinatorChains \ {<<>>} :
            /\ document = WordsDocument(n)
            /\ pattern = [leaf |-> DynPattern(resp), wraps |-> ws]

----------------------------------------------------------------------------
(* The pattern engine as a state machine: one call of pattern.matches on   *)
(* the document's tokens, the outermost RepeatingPattern's loop unrolled.  *)

Depth == Len(pattern.wraps)

Outer == IF Depth = 0 THEN pattern.leaf.t ELSE pattern.wraps[Depth].t

InitPatterns ==
    /\ (BuiltinInput \/ DynInput)
    /\ tok_cursor = 0
    /\ repetition = 0
    /\ match_lens = <<>>
    /\ last_inner = NotCalled
    /\ adj_iter = 0
    /\ lints = <<>>
    /\ pc = "matches"
    /\ result = None
    /\ calls = <<>>
    /\ fixed = <<>>

Return(value) ==
    /\ result' = value
    /\ pc' = IF value = Panic THEN "panicked" ELSE "done"

\* WhitespacePattern.matches(doc.get_tokens(), doc.get_source())
CallWhitespacePattern ==
    /\ pc = "matches" /\ Outer = "WhitespacePattern"
    /\ Return(WhitespacePatternMatches(document.tokens, document.source))
    /\ UNCHANGED <<document, pattern, tok_cursor, repetition, match_lens,
                   last_inner, adj_iter, lints,
                   calls, fixed>>

\* IndefiniteArticle.matches(doc.get_tokens(), doc.get_source())
CallIndefiniteArticle ==
    /\ pc = "matches" /\ Outer = "IndefiniteArticle"
    /\ Return(IndefiniteArticleMatches(document.tokens, document.source))
    /\ UNCHANGED <<document, pattern, tok_cursor, repetition, match_lens,
                   last_inner, adj_iter, lints,
                   calls, fixed>>

\* Invert(inner).matches(doc.get_tokens(), doc.get_source())
CallInvert ==
    /\ pc = "matches" /\ Outer = "Invert"
    /\ LET inner == Matches(pattern, Depth - 1, document.tokens, document.source)
       IN  /\ last_inner' = inner
           /\ Return(InvertMatches(inner))
    /\ UNCHANGED <<document, pattern, tok_cursor, repetition, match_lens,
                   adj_iter, lints,
                   calls, fixed>>

\* The inner call of the running loop iteration
InnerNow ==
    InnerAtCursor(pattern, Depth, document.tokens, document.source, tok_cursor)

StepNow ==
    RepeatingLoopBody(InnerNow, tok_cursor, repetition,
                      pattern.wraps[Depth].required_repetitions)

\* An iteration of RepeatingPattern::matches' loop in which the inner pattern
\* matches one token or more: the cursor advances, the loop goes on.
RepeatingAdvance ==
    /\ pc = "matches" /\ Outer = "RepeatingPattern"
    /\ ~StepNow.returns
    /\ tok_cursor' = StepNow.tok_cursor
    /\ repetition' = StepNow.repetition
    /\ match_lens' = Append(match_lens, InnerNow.len)
    /\ last_inner' = InnerNow
    /\ UNCHANGED <<document, pattern, adj_iter, lints, pc, result,
                   calls, fixed>>

\* An iteration that returns: a zero-length match, or the inner pattern failing
RepeatingReturn ==
    /\ pc = "matches" /\ Outer = "RepeatingPattern"
    /\ StepNow.returns /\ StepNow.value # Panic
    /\ last_inner' = InnerNow
    /\ Return(StepNow.value)
    /\ UNCHANGED <<document, pattern, tok_cursor, repetition, match_lens,
                   adj_iter, lints,
                   calls, fixed>>

\* An iteration that panics: &tokens[tok_cursor..] with the cursor beyond the
\* end of the tokens, or a panic inside the inner pattern
RepeatingPanic ==
    /\ pc = "matches" /\ Outer = "RepeatingPattern"
    /\ StepNow.returns /\ StepNow.value = Panic
    /\ last_inner' = InnerNow
    /\ Return(Panic)
    /\ UNCHANGED <<document, pattern, tok_cursor, repetition, match_lens,
                   adj_iter, lints,
                   calls, fixed>>

NextPatterns ==
    \/ CallWhitespacePattern
    \/ CallIndefiniteArticle
    \/ CallInvert
    \/ RepeatingAdvance
    \/ RepeatingReturn
    \/ RepeatingPanic

PatternSpec == InitPatterns /\ [][NextPatterns]_vars

----------------------------------------------------------------------------
(* Properties of the pattern engine *)

RECURSIVE SumSeq(_)
SumSeq(s) == IF s = <<>> THEN 0 ELSE Head(s) + SumSeq(Tail(s))

Returned == pc \in {"done", "panicked"}

\* P.matches(T, s), for P the pattern under the outermost combinator
InnerOnAll == Matches(pattern, Depth - 1, document.tokens, document.source)

\* P.matches(&T[c..], s)
InnerOnSuffix(c) ==
    Matches(pattern, Depth - 1, SliceFrom(document.tokens, c), document.source)

\* C1: on a nonempty token sequence, Invert(P).matches returns Some(1) if and
\* only if P.matches returns None, and None whenever P matches, whatever the
\* length of P's match (P returning at all being understood).
InvertNegatesPresence ==
    (/\ Returned /\ Outer = "Invert"
     /\ document.tokens # <<>>
     /\ InnerOnAll # Panic)
    => /\ (result = Some(1)) <=> (InnerOnAll = None)
       /\ is_some(InnerOnAll) => result = None
       /\ result \in {Some(1), None}

\* C1 happens: P matched two tokens and Invert(P) returned None
InvertNegatesPresenceWitness ==
    /\ pc = "done" /\ Outer = "Invert"
    /\ document.tokens # <<>>
    /\ is_some(InnerOnAll) /\ InnerOnAll.len >= 2
    /\ result = None

\* P matches every nonempty suffix of the tokens with a nonzero length that
\* stays within the suffix, and matches no token where there is none.
AlwaysMatchesNonzero ==
    /\ \A c \in 0..(Len(document.tokens) - 1) :
        /\ is_some(InnerOnSuffix(c))
        /\ InnerOnSuffix(c).len \in 1..(Len(document.tokens) - c)
    /\ InnerOnSuffix(Len(document.tokens)) \in {None, Some(0)}

\* C2: RepeatingPattern(P, 0).matches(T, _) returns Some(len(T)) when P
\* matches with nonzero length at every position of T.
RepeatingMatchesAll ==
    (/\ Outer = "RepeatingPattern"
     /\ pattern.wraps[Depth].required_repetitions = 0
     /\ AlwaysMatchesNonzero)
    => /\ pc # "panicked"
       /\ tok_cursor <= Len(document.tokens)
       /\ pc = "done" => result = Some(Len(document.tokens))

\* C2 happens: two repetitions or more, of which one took several tokens,
\* consumed all the tokens
RepeatingMatchesAllWitness ==
    /\ pc = "done" /\ Outer = "RepeatingPattern"
    /\ pattern.wraps[Depth].required_repetitions = 0
    /\ AlwaysMatchesNonzero
    /\ repetition >= 2 /\ Len(document.tokens) > repetition
    /\ result = Some(Len(document.tokens))

\* C3: for k >= 1, RepeatingPattern(P, k).matches returns None when P fails
\* before k repetitions are completed, and Some(the sum of the lengths of the
\* completed repetitions) when P first fails after k repetitions or more.
RepeatingRequiresReps ==
    (/\ Outer = "RepeatingPattern"
     /\ pattern.wraps[Depth].required_repetitions >= 1
     /\ last_inner = None)
    => /\ pc = "done"
       /\ Len(match_lens) = repetition
       /\ \A j \in DOMAIN match_lens : match_lens[j] > 0
       /\ IF Len(match_lens) < pattern.wraps[Depth].required_repetitions
          THEN result = None
          ELSE result = Some(SumSeq(match_lens))

\* C3 happens: P failed after exactly the k >= 1 required repetitions, of
\* which one took several tokens
RepeatingRequiresRepsWitness ==
    /\ pc = "done" /\ Outer = "RepeatingPattern"
    /\ pattern.wraps[Depth].required_repetitions >= 1
    /\ last_inner = None
    /\ Len(match_lens) = pattern.wraps[Depth].required_repetitions
    /\ SumSeq(match_lens) > Len(match_lens)
    /\ result = Some(SumSeq(match_lens))

\* C4: as soon as P matches with length 0 the loop of RepeatingPattern stops
\* and returns Some(cursor), the length the earlier repetitions consumed,
\* whatever min_reps and the repetitions counted; Some(0) if it is P's first
\* application.
RepeatingZeroLengthStops ==
    (Outer = "RepeatingPattern" /\ last_inner = Some(0))
    => /\ pc = "done"
       /\ result = Some(tok_cursor)
       /\ result = Some(SumSeq(match_lens))
       /\ match_lens = <<>> => result = Some(0)

\* C4 happens: a zero-length match after fewer repetitions than required
RepeatingZeroLengthStopsWitness ==
    /\ pc = "done" /\ Outer = "RepeatingPattern"
    /\ last_inner = Some(0)
    /\ repetition >= 1
    /\ repetition < pattern.wraps[Depth].required_repetitions
    /\ result = Some(tok_cursor) /\ tok_cursor > 0

\* the pattern is built from the engine's own patterns and combinators only
BuiltFromEngine == pattern.leaf.t \in {"WhitespacePattern", "IndefiniteArticle"}

\* the cursor at which the last iteration of the loop sliced the tokens
CursorAtLastCall ==
    IF pc = "matches" /\ match_lens # <<>>
    THEN tok_cursor - match_lens[Len(match_lens)]
    ELSE tok_cursor

\* C13: RepeatingPattern.matches never faults on a pattern built from the
\* engine's own patterns and combinators, whatever the tokens: the cursor it
\* slices the tokens at stays within them, an inner Invert is never handed an
\* empty slice, and a returned Some(n) has n <= len(tokens).
RepeatingNeverFaults ==
    (Outer = "RepeatingPattern" /\ BuiltFromEngine)
    => /\ pc # "panicked"
       /\ tok_cursor <= Len(document.tokens)
       /\ (/\ last_inner \notin {NotCalled, Panic}
           /\ Depth >= 2 /\ pattern.wraps[Depth - 1].t = "Invert")
          => CursorAtLastCall < Len(document.tokens)
       /\ (pc = "done" /\ is_some(result)) => result.len <= Len(document.tokens)

----------------------------------------------------------------------------
(* The AdjectiveOfA linter *)

ADJECTIVE_WHITELIST ==
    <<<<"b","a","d">>, <<"b","i","g">>, <<"g","o","o","d">>,
      <<"l","a","r","g","e">>, <<"l","o","n","g">>, <<"v","a","g","u","e">>>>

CONTEXT_WORDS ==
    <<<<"a","s">>, <<"h","o","w">>, <<"t","h","a","t">>,
      <<"t","h","i","s">>, <<"t","o","o">>>>

ADJECTIVE_BLACKLIST == <<<<"m","u","c","h">>, <<"p","a","r","t">>>>

\* has_context_word without the test that the token before the adjective is
\* whitespace
has_context_word_any_separator(doc, adj_idx) ==
    IF adj_idx < 2 THEN FALSE
    ELSE LET space_token == get_token(doc, adj_idx - 1)
             word_token == get_token(doc, adj_idx - 2)
         IN  IF space_token = <<>> THEN FALSE
             ELSE IF word_token = <<>> THEN FALSE
             ELSE IF ~is_word(word_token[1]) THEN FALSE
             ELSE LET word == get_span_content_str(doc.source, word_token[1].span)
                  IN  \E k \in DOMAIN CONTEXT_WORDS :
                          eq_ignore_ascii_case(CONTEXT_WORDS[k], word)

has_context_word(doc, adj_idx) ==
    IF adj_idx < 2 THEN FALSE
    ELSE LET space_token == get_token(doc, adj_idx - 1)
             word_token == get_token(doc, adj_idx - 2)
         IN  IF space_token = <<>> THEN FALSE
             ELSE IF ~is_whitespace(space_token[1]) THEN FALSE
             ELSE IF word_token = <<>> THEN FALSE
             ELSE IF ~is_word(word_token[1]) THEN FALSE
             ELSE LET word == get_span_content_str(doc.source, word_token[1].span)
                  IN  \E k \in DOMAIN CONTEXT_WORDS :
                          eq_ignore_ascii_case(CONTEXT_WORDS[k], word)

is_good_adjective(word) ==
    \E k \in DOMAIN ADJECTIVE_WHITELIST :
        eq_ignore_ascii_case(word, ADJECTIVE_WHITELIST[k])

\* is_bad_adjective looking the word up in the whitelist
is_bad_adjective_wrong_list(word) ==
    \E k \in DOMAIN ADJECTIVE_WHITELIST :
        eq_ignore_ascii_case(word, ADJECTIVE_WHITELIST[k])

is_bad_adjective(word) ==
    \E k \in DOMAIN ADJECTIVE_BLACKLIST :
        eq_ignore_ascii_case(word, ADJECTIVE_BLACKLIST[k])

\* the exclusion of the -ing forms without the test of the noun and verb
\* capabilities
is_excluded_form_every_ing(adj_str, adjective) ==
    \/ ends_with(adj_str, <<"e","r">>)
    \/ ends_with(adj_str, <<"s","t">>)
    \/ ends_with(adj_str, <<"i","n","g">>)

\* lint: the comparatives, the superlatives and the present participles
is_excluded_form(adj_str, adjective) ==
    \/ ends_with(adj_str, <<"e","r">>)
    \/ ends_with(adj_str, <<"s","t">>)
    \/ /\ ends_with(adj_str, <<"i","n","g">>)
       /\ (is_noun(adjective) \/ is_verb(adjective))

\* Where lint goes after its look at the four tokens after the adjective, with
\* the is_none test left out: "push", "continue", or "panic" for an unwrap()
\* of None
check_following_unchecked(doc, i) ==
    LET space_1 == get_token(doc, i + 1)
        word_of == get_token(doc, i + 2)
        space_2 == get_token(doc, i + 3)
        a_or_an == get_token(doc, i + 4)
    IN  IF space_1 = <<>> THEN "panic"
        ELSE IF ~is_whitespace(space_1[1]) THEN "continue"
        ELSE IF word_of = <<>> THEN "panic"
        ELSE IF ~is_word(word_of[1]) THEN "continue"
        ELSE IF to_lowercase(get_span_content_str(doc.source, word_of[1].span))
                    # <<"o","f">> THEN "continue"
        ELSE IF space_2 = <<>> THEN "panic"
        ELSE IF ~is_whitespace(space_2[1]) THEN "continue"
        ELSE IF a_or_an = <<>> THEN "panic"
        ELSE IF ~is_word(a_or_an[1]) THEN "continue"
        ELSE LET a_or_an_str ==
                     to_lowercase(get_span_content_str(doc.source, a_or_an[1].span))
             IN  IF a_or_an_str # <<"a">> /\ a_or_an_str # <<"a","n">>
                 THEN "continue"
                 ELSE "push"

\* Where lint goes after its look at the four tokens after the adjective:
\* "push" when they are whitespace, "of", whitespace and "a" or "an",
\* "continue" when not, "panic" for an unwrap() of None
check_following(doc, i) ==
    LET space_1 == get_token(doc, i + 1)
        word_of == get_token(doc, i + 2)
        space_2 == get_token(doc, i + 3)
        a_or_an == get_token(doc, i + 4)
    IN  IF space_1 = <<>> \/ word_of = <<>> \/ space_2 = <<>> \/ a_or_an = <<>>
        THEN "continue"
        ELSE IF space_1 = <<>> THEN "panic"
        ELSE IF ~is_whitespace(space_1[1]) THEN "continue"
        ELSE IF word_of = <<>> THEN "panic"
        ELSE IF ~is_word(word_of[1]) THEN "continue"
        ELSE IF to_lowercase(get_span_content_str(doc.source, word_of[1].span))
                    # <<"o","f">> THEN "continue"
        ELSE IF space_2 = <<>> THEN "panic"
        ELSE IF ~is_whitespace(space_2[1]) THEN "continue"
        ELSE IF a_or_an = <<>> THEN "panic"
        ELSE IF ~is_word(a_or_an[1]) THEN "continue"
        ELSE LET a_or_an_str ==
                     to_lowercase(get_span_content_str(doc.source, a_or_an[1].span))
             IN  IF a_or_an_str # <<"a">> /\ a_or_an_str # <<"a","n">>
                 THEN "continue"
                 ELSE "push"

ReplaceWith(chars) == [ReplaceWith |-> chars]

\* the suggestions with the two whitespace runs exchanged
make_suggestions_swapped(doc, adjective, space_1, space_2, a_or_an) ==
    LET sugg_1 == get_span_content(doc.source, adjective.span)
                  \o get_span_content(doc.source, space_2.span)
                  \o get_span_content(doc.source, a_or_an.span)
        sugg_2 == get_span_content(doc.source, adjective.span)
                  \o get_span_content(doc.source, space_1.span)
                  \o get_span_content(doc.source, a_or_an.span)
    IN  IF sugg_1 # sugg_2
        THEN <<ReplaceWith(sugg_1), ReplaceWith(sugg_2)>>
        ELSE <<ReplaceWith(sugg_1)>>

\* the suggestions with the second one pushed whether or not it differs
make_suggestions_always_two(doc, adjective, space_1, space_2, a_or_an) ==
    LET sugg_1 == get_span_content(doc.source, adjective.span)
                  \o get_span_content(doc.source, space_1.span)
                  \o get_span_content(doc.source, a_or_an.span)
        sugg_2 == get_span_content(doc.source, adjective.span)
                  \o get_span_content(doc.source, space_2.span)
                  \o get_span_content(doc.source, a_or_an.span)
    IN  <<ReplaceWith(sugg_1), ReplaceWith(sugg_2)>>

\* the suggestions with the text of the whole span, of included
make_suggestions_keeps_of(doc, adjective, space_1, space_2, a_or_an) ==
    <<ReplaceWith(get_span_content(doc.source,
                      [start |-> adjective.span.start,
                       end |-> a_or_an.span.end]))>>

\* lint: sugg_1, sugg_2 and the suggestions vector
make_suggestions(doc, adjective, space_1, space_2, a_or_an) ==
    LET sugg_1 == get_span_content(doc.source, adjective.span)
                  \o get_span_content(doc.source, space_1.span)
                  \o get_span_content(doc.source, a_or_an.span)
        sugg_2 == get_span_content(doc.source, adjective.span)
                  \o get_span_content(doc.source, space_2.span)
                  \o get_span_content(doc.source, a_or_an.span)
    IN  IF sugg_1 # sugg_2
        THEN <<ReplaceWith(sugg_1), ReplaceWith(sugg_2)>>
        ELSE <<ReplaceWith(sugg_1)>>

\* The message of the lint.  Its word of stands between two backquotes (U+0060),
\* which a TLA+ string cannot hold: an apostrophe stands for each.
LINT_MESSAGE == "The word 'of' is not needed here."

\* a push that puts the value in front of the vector
push_front(vec, value) == <<value>> \o vec

\* lints.push(Lint { .. })
push(vec, value) == Append(vec, value)

\* the Lint pushed for the adjective at index i
make_lint(doc, i) ==
    LET adjective == doc.tokens[i + 1]
        space_1 == doc.tokens[i + 2]
        space_2 == doc.tokens[i + 4]
        a_or_an == doc.tokens[i + 5]
    IN  [span |-> [start |-> adjective.span.start, end |-> a_or_an.span.end],
         lint_kind |-> "Style",
         suggestions |-> make_suggestions(doc, adjective, space_1, space_2, a_or_an),
         message |-> LINT_MESSAGE,
         priority |-> 63]

\* Suggestion::ReplaceWith applied to the source at the span of its lint
ApplySuggestion(source, span, suggestion) ==
    SubSeq(source, 1, span.start) \o suggestion.ReplaceWith
        \o SubSeq(source, span.end + 1, Len(source))

\* One iteration of lint's for loop, for the adjective index i: the lints it
\* pushes (none when it continues), or the panic of an unwrap() of None.
lint_iteration(doc, i) ==
    IF get_token(doc, i) = <<>> THEN [panic |-> TRUE, pushed |-> <<>>]
    ELSE LET adjective == get_token(doc, i)[1]
             adj_str == to_lowercase(get_span_content_str(doc.source, adjective.span))
         IN  IF ~is_good_adjective(adj_str) /\ ~has_context_word(doc, i)
             THEN [panic |-> FALSE, pushed |-> <<>>]
             ELSE IF is_bad_adjective(adj_str)
             THEN [panic |-> FALSE, pushed |-> <<>>]
             ELSE IF is_excluded_form(adj_str, adjective)
             THEN [panic |-> FALSE, pushed |-> <<>>]
             ELSE IF check_following(doc, i) = "panic"
             THEN [panic |-> TRUE, pushed |-> <<>>]
             ELSE IF check_following(doc, i) = "continue"
             THEN [panic |-> FALSE, pushed |-> <<>>]
             ELSE [panic |-> FALSE, pushed |-> <<make_lint(doc, i)>>]

----------------------------------------------------------------------------
(* The documents the linter is run on: an adjective, what stands before it *)
(* and up to MaxTail tokens after it                                       *)

Word(text) == Lexeme(text, "Word", FALSE, FALSE, FALSE)

Adjective(text, noun, verb) == Lexeme(text, "Word", TRUE, noun, verb)

Newline == Lexeme(<<"\n">>, "Newline", FALSE, FALSE, FALSE)

Dot == Lexeme(<<".">>, "Punctuation", FALSE, FALSE, FALSE)

LexOf == Word(<<"o","f">>)

LexOfCapital == Word(<<"O","f">>)

LexAs == Word(<<"a","s">>)

LexToo == Word(<<"T","O","O">>)

LexBig == Adjective(<<"b","i","g">>, FALSE, FALSE)

LexThat == Adjective(<<"t","h","a","t">>, FALSE, FALSE)

Adjectives ==
    { Adjective(<<"l","a","r","g","e">>, FALSE, FALSE),
      Adjective(<<"L","o","n","g">>, FALSE, FALSE),
      Adjective(<<"d","u","m","b">>, FALSE, FALSE),
      Adjective(<<"m","u","c","h">>, FALSE, FALSE),
      Adjective(<<"P","a","r","t">>, TRUE, FALSE),
      Adjective(<<"b","e","t","t","e","r">>, FALSE, FALSE),
      Adjective(<<"w","o","r","s","t">>, FALSE, FALSE),
      Adjective(<<"b","o","r","i","n","g">>, FALSE, FALSE),
      Adjective(<<"l","a","s","t","i","n","g">>, TRUE, FALSE),
      Adjective(<<"m","i","s","s","i","n","g">>, FALSE, TRUE) }

\* a whitelisted adjective, an unlisted one and a blacklisted one
CoreAdjectives ==
    { Adjective(<<"l","a","r","g","e">>, FALSE, FALSE),
      Adjective(<<"d","u","m","b">>, FALSE, FALSE),
      Adjective(<<"P","a","r","t">>, TRUE, FALSE) }

\* nothing or a context word before the adjective
CoreBefores == { <<>>, <<LexAs, Space1>>, <<LexToo, Newline>> }

\* what stands before the adjective
Befores ==
    { <<>>,
      <<Space1>>,
      <<LexAs, Space1>>,
      <<LexToo, Newline>>,
      <<LexThe, Space1>>,
      <<LexAs, Dot>>,
      <<Dot, Space1>>,
      <<LexThat, Space1>>,
      <<LexBig, Space1>>,
      <<LexBig, Space1, LexOfCapital, Newline, LexAn, Space1>> }

\* the tokens that may stand after the adjective
TailLexemes == {Space1, Newline, LexOf, LexA, LexAn}

\* The document up to its adjective: every adjective with or without a
\* context word before it, and the core adjectives after everything else.
LintStarts ==
    {before \o <<adj>> : before \in CoreBefores, adj \in Adjectives}
    \cup {before \o <<adj>> : before \in Befores, adj \in CoreAdjectives}

----------------------------------------------------------------------------
(* The linter as a state machine: one call of AdjectiveOfA.lint(document), *)
(* one step for each iteration of its for loop                             *)

InitLint ==
    /\ \E start \in LintStarts, after \in SeqsUpTo(TailLexemes, MaxTail) :
            document = NewDocument(start \o after)
    /\ pattern = [leaf |-> WhitespacePattern, wraps |-> <<>>]
    /\ tok_cursor = 0
    /\ repetition = 0
    /\ match_lens = <<>>
    /\ last_inner = NotCalled
    /\ adj_iter = 0
    /\ lints = <<>>
    /\ pc = "lint"
    /\ result = None
    /\ calls = <<>>
    /\ fixed = <<>>

\* the adjective index the for loop takes next
NextAdjective == iter_adjective_indices(document)[adj_iter + 1]

\* An iteration of the for loop that reaches lints.push
LintPush ==
    /\ pc = "lint"
    /\ adj_iter < Len(iter_adjective_indices(document))
    /\ LET it == lint_iteration(document, NextAdjective)
       IN  /\ ~it.panic /\ it.pushed # <<>>
           /\ lints' = push(lints, it.pushed[1])
    /\ adj_iter' = adj_iter + 1
    /\ UNCHANGED <<document, pattern, tok_cursor, repetition, match_lens,
                   last_inner, pc, result,
                   calls, fixed>>

\* An iteration of the for loop that pushes nothing: a continue, or a panic
LintContinue ==
    /\ pc = "lint"
    /\ adj_iter < Len(iter_adjective_indices(document))
    /\ LET it == lint_iteration(document, NextAdjective)
       IN  /\ it.panic \/ it.pushed = <<>>
           /\ pc' = IF it.panic THEN "panicked" ELSE pc
    /\ adj_iter' = adj_iter + 1
    /\ UNCHANGED <<document, pattern, tok_cursor, repetition, match_lens,
                   last_inner, lints, result,
                   calls, fixed>>

\* The for loop is over: lint returns lints
LintReturn ==
    /\ pc = "lint"
    /\ adj_iter = Len(iter_adjective_indices(document))
    /\ pc' = "done"
    /\ UNCHANGED <<document, pattern, tok_cursor, repetition, match_lens,
                   last_inner, adj_iter, lints, result,
                   calls, fixed>>

NextLint ==
    \/ LintPush
    \/ LintContinue
    \/ LintReturn

LintSpec == InitLint /\ [][NextLint]_vars

----------------------------------------------------------------------------
(* Linting again: the same document a second time, and the document that  *)
(* applying a suggestion of a lint gives                                   *)

MaxFollow == 2

\* the words the tokenizer knows, with their capabilities
Dictionary ==
    Adjectives \cup {LexBig, LexThat, LexOf, LexOfCapital, LexA, LexAn,
                     LexAs, LexToo, LexThe}

CharKind(c) ==
    CASE c = " " -> "Space"
      [] c = "\n" -> "Newline"
      [] c = "." -> "Punctuation"
      [] OTHER -> "Word"

RECURSIVE RunEnd(_, _)
\* the last position of the run of characters of one kind that starts at k;
\* a punctuation mark is a run of its own
RunEnd(source, k) ==
    IF k = Len(source) \/ CharKind(source[k]) = "Punctuation"
       \/ CharKind(source[k + 1]) # CharKind(source[k])
    THEN k
    ELSE RunEnd(source, k + 1)

\* the lexeme of a run of characters: a word has what the dictionary says
LexemeOf(text) ==
    IF \E l \in Dictionary : l.text = text
    THEN CHOOSE l \in Dictionary : l.text = text
    ELSE Lexeme(text, CharKind(text[1]), FALSE, FALSE, FALSE)

RECURSIVE Lex(_, _)
\* the lexemes of the source from position k on
Lex(source, k) ==
    IF k > Len(source) THEN <<>>
    ELSE <<LexemeOf(SubSeq(source, k, RunEnd(source, k)))>>
         \o Lex(source, RunEnd(source, k) + 1)

\* Document::new on a source text
DocumentOfSource(source) == NewDocument(Lex(source, 1))

\* what stands before the adjective of the documents that are linted again
RelintBefores ==
    { <<>>,
      <<LexAs, Space1>>,
      <<LexBig, Space1, LexOfCapital, Newline, LexAn, Space1>> }

\* an adjective followed by of and an article, the two whitespaces and the
\* article varying
RelintStarts ==
    {before \o <<adj, space_1, LexOf, space_2, article>> :
        before \in RelintBefores, adj \in CoreAdjectives,
        space_1 \in {Space1, Newline}, space_2 \in {Space1, Newline},
        article \in {LexA, LexAn}}

InitRelint ==
    /\ \E start \in RelintStarts, after \in SeqsUpTo(TailLexemes, MaxFollow) :
            document = NewDocument(start \o after)
    /\ pattern = [leaf |-> WhitespacePattern, wraps |-> <<>>]
    /\ tok_cursor = 0
    /\ repetition = 0
    /\ match_lens = <<>>
    /\ last_inner = NotCalled
    /\ adj_iter = 0
    /\ lints = <<>>
    /\ pc = "lint"
    /\ result = None
    /\ calls = <<>>
    /\ fixed = <<>>

\* how many finished or running calls of lint were given the document
TimesLinted(doc) ==
    Cardinality({k \in DOMAIN calls : calls[k].document = doc})
    + (IF doc = document THEN 1 ELSE 0)

\* lint is entered on the document doc: let mut lints = Vec::new()
EnterLint(doc) ==
    /\ document' = doc
    /\ calls' = Append(calls, [document |-> document, lints |-> lints])
    /\ lints' = <<>>
    /\ adj_iter' = 0
    /\ pc' = "lint"
    /\ UNCHANGED <<pattern, tok_cursor, repetition, match_lens, last_inner,
                   result>>

\* lint is called once more on a document it has been called on once: the
\* one it has just returned from, or an earlier one
LintAgain ==
    /\ pc = "done"
    /\ \E doc \in {document} \cup {calls[k].document : k \in DOMAIN calls} :
            /\ TimesLinted(doc) < 2
            /\ EnterLint(doc)
    /\ UNCHANGED fixed

\* A suggestion of one of the returned lints is applied to the source at the
\* span of the lint, and lint is called on the document of the new source
ApplySuggestionAndRelint ==
    /\ pc = "done"
    /\ fixed = <<>>
    /\ \E n \in DOMAIN lints : \E m \in DOMAIN lints[n].suggestions :
            LET doc == DocumentOfSource(
                           ApplySuggestion(document.source, lints[n].span,
                                           lints[n].suggestions[m]))
            IN  /\ fixed' = <<[start |-> lints[n].span.start, document |-> doc]>>
                /\ EnterLint(doc)

NextRelint ==
    \/ NextLint
    \/ LintAgain
    \/ ApplySuggestionAndRelint

RelintSpec == InitRelint /\ [][NextRelint]_vars

----------------------------------------------------------------------------
(* The two together *)

Init == InitPatterns \/ InitLint \/ InitRelint

Next == NextPatterns \/ NextRelint

Spec == Init /\ [][Next]_vars

----------------------------------------------------------------------------
(* Properties of the linter *)

Tok(k) == document.tokens[k + 1]

HasTok(k) == k >= 0 /\ k < Len(document.tokens)

Text(k) == get_span_content(document.source, Tok(k).span)

Lower(k) == to_lowercase(Text(k))

AdjectiveIndices == {k \in 0..(Len(document.tokens) - 1) : is_adjective(Tok(k))}

\* the lints emitted for the adjective at index i
LintsAt(i) == {n \in DOMAIN lints : lints[n].span.start = Tok(i).span.start}

Whitelisted ==
    {<<"b","a","d">>, <<"b","i","g">>, <<"g","o","o","d">>,
     <<"l","a","r","g","e">>, <<"l","o","n","g">>, <<"v","a","g","u","e">>}

ContextWordSet ==
    {<<"a","s">>, <<"h","o","w">>, <<"t","h","a","t">>, <<"t","h","i","s">>,
     <<"t","o","o">>}

Blacklisted == {<<"m","u","c","h">>, <<"p","a","r","t">>}

\* the adjective is preceded by one whitespace token and a context word
AfterContextWord(i) ==
    /\ i >= 2
    /\ is_whitespace(Tok(i - 1))
    /\ is_word(Tok(i - 2))
    /\ Lower(i - 2) \in ContextWordSet

PassesGate(i) == Lower(i) \in Whitelisted \/ AfterContextWord(i)

EndsIn(i, suffix) ==
    /\ Len(Lower(i)) >= Len(suffix)
    /\ \A k \in 1..Len(suffix) :
        Lower(i)[Len(Lower(i)) - Len(suffix) + k] = suffix[k]

MorphologicallyExcluded(i) ==
    \/ EndsIn(i, <<"e","r">>)
    \/ EndsIn(i, <<"s","t">>)
    \/ EndsIn(i, <<"i","n","g">>) /\ (is_noun(Tok(i)) \/ is_verb(Tok(i)))

\* tokens i+1 .. i+4 are whitespace, "of", whitespace, "a" or "an"
FollowedByOfA(i) ==
    /\ HasTok(i + 4)
    /\ is_whitespace(Tok(i + 1))
    /\ is_word(Tok(i + 2)) /\ Lower(i + 2) = <<"o","f">>
    /\ is_whitespace(Tok(i + 3))
    /\ is_word(Tok(i + 4)) /\ Lower(i + 4) \in {<<"a">>, <<"a","n">>}

RECURSIVE TextOfTokens(_, _)
\* the text of the tokens from index k on, those of the indices in `skipped`
\* left out
TextOfTokens(k, skipped) ==
    IF ~HasTok(k) THEN <<>>
    ELSE (IF k \in skipped THEN <<>> ELSE Text(k)) \o TextOfTokens(k + 1, skipped)

\* C5: an adjective that passes the gate, is neither blacklisted nor
\* morphologically excluded and is followed by whitespace, "of", whitespace,
\* "a"/"an" gets exactly one lint, and applying that lint's first suggestion
\* gives the text without the word "of" and the whitespace after it.
LintRemovesOf ==
    pc = "done" =>
        \A i \in AdjectiveIndices :
            (/\ PassesGate(i)
             /\ Lower(i) \notin Blacklisted
             /\ ~MorphologicallyExcluded(i)
             /\ FollowedByOfA(i))
            => /\ Cardinality(LintsAt(i)) = 1
               /\ \A n \in LintsAt(i) :
                    ApplySuggestion(document.source, lints[n].span,
                                    lints[n].suggestions[1])
                        = TextOfTokens(0, {i + 2, i + 3})

\* C5 happens: "as large of a" is linted, its two whitespace runs differing
LintRemovesOfWitness ==
    /\ pc = "done"
    /\ \E i \in AdjectiveIndices :
        /\ AfterContextWord(i) /\ Lower(i) = <<"l","a","r","g","e">>
        /\ FollowedByOfA(i) /\ Text(i + 1) # Text(i + 3)
        /\ Cardinality(LintsAt(i)) = 1
        /\ Len(lints) = 1
        /\ ApplySuggestion(document.source, lints[1].span, lints[1].suggestions[1])
               = TextOfTokens(0, {i + 2, i + 3})

\* C6: no lint is ever emitted for an adjective whose lower-cased text is
\* "much" or "part", whatever its letter case and its context.
NeverLintsBlacklisted ==
    \A i \in AdjectiveIndices : Lower(i) \in Blacklisted => LintsAt(i) = {}

\* C6 happens: "Part", after a context word and before "of a", was passed over
NeverLintsBlacklistedWitness ==
    /\ pc = "done"
    /\ \E i \in AdjectiveIndices :
        /\ Lower(i) \in Blacklisted /\ Text(i) # Lower(i)
        /\ AfterContextWord(i) /\ FollowedByOfA(i)
        /\ LintsAt(i) = {}

\* C7: a lint is emitted for an adjective only if its lower-cased text is in
\* the whitelist, or the token before it is whitespace and the one before
\* that a context word (ignoring case).
LintsOnlyThroughGate ==
    \A i \in AdjectiveIndices : LintsAt(i) # {} => PassesGate(i)

\* C7 happens: "dumb" before "of a", with a context word before it but no
\* whitespace between them, was passed over
LintsOnlyThroughGateWitness ==
    /\ pc = "done"
    /\ \E i \in AdjectiveIndices :
        /\ i >= 2 /\ is_word(Tok(i - 2)) /\ Lower(i - 2) \in ContextWordSet
        /\ ~is_whitespace(Tok(i - 1))
        /\ Lower(i) \notin Whitelisted /\ Lower(i) \notin Blacklisted
        /\ ~MorphologicallyExcluded(i) /\ FollowedByOfA(i)
        /\ LintsAt(i) = {}

\* C8: no lint for an adjective ending in "er" or "st", nor for one ending in
\* "ing" that is also a noun or a verb; an adjective ending in "ing" that is
\* neither is linted when the other conditions hold.
MorphologicalExclusions ==
    \A i \in AdjectiveIndices :
        /\ (\/ EndsIn(i, <<"e","r">>)
            \/ EndsIn(i, <<"s","t">>)
            \/ EndsIn(i, <<"i","n","g">>) /\ (is_noun(Tok(i)) \/ is_verb(Tok(i))))
           => LintsAt(i) = {}
        /\ (/\ pc = "done"
            /\ EndsIn(i, <<"i","n","g">>) /\ ~is_noun(Tok(i)) /\ ~is_verb(Tok(i))
            /\ PassesGate(i) /\ Lower(i) \notin Blacklisted /\ FollowedByOfA(i))
           => LintsAt(i) # {}

\* C8 happens: "boring", an adjective only, was linted
MorphologicalExclusionsWitness ==
    /\ pc = "done"
    /\ \E i \in AdjectiveIndices :
        /\ EndsIn(i, <<"i","n","g">>) /\ ~is_noun(Tok(i)) /\ ~is_verb(Tok(i))
        /\ LintsAt(i) # {}

\* C9: a lint is emitted for the adjective at i only if tokens i+1 .. i+4
\* exist and are whitespace, "of", whitespace, "a"/"an"; otherwise the index
\* is skipped without a fault and the scan goes on to the last adjective.
LintsOnlyBeforeOfA ==
    /\ pc # "panicked"
    /\ \A i \in AdjectiveIndices : LintsAt(i) # {} => FollowedByOfA(i)
    /\ pc = "done" => adj_iter = Cardinality(AdjectiveIndices)

\* C9 happens: an adjective with a wrong token among its next four was
\* skipped, one with fewer than four tokens after it too, and the scan went on
\* to lint a later adjective
LintsOnlyBeforeOfAWitness ==
    /\ pc = "done"
    /\ \E i \in AdjectiveIndices, j \in AdjectiveIndices :
        /\ i < j
        /\ PassesGate(i) /\ Lower(i) \notin Blacklisted
        /\ ~MorphologicallyExcluded(i)
        /\ HasTok(i + 4) /\ ~FollowedByOfA(i)
        /\ LintsAt(i) = {}
        /\ LintsAt(j) # {}

\* C10: every lint spans the adjective's start to the article's end, is of
\* kind Style with the fixed message and priority 63, and suggests
\* adjective + first whitespace + article, followed by adjective + second
\* whitespace + article exactly when the two whitespace runs differ.
LintShape ==
    \A n \in DOMAIN lints :
        \E i \in AdjectiveIndices :
            /\ HasTok(i + 4)
            /\ lints[n].span = [start |-> Tok(i).span.start,
                                end |-> Tok(i + 4).span.end]
            /\ lints[n].lint_kind = "Style"
            /\ lints[n].message = "The word 'of' is not needed here."
            /\ lints[n].priority = 63
            /\ lints[n].suggestions =
                IF Text(i + 1) = Text(i + 3)
                THEN <<ReplaceWith(Text(i) \o Text(i + 1) \o Text(i + 4))>>
                ELSE <<ReplaceWith(Text(i) \o Text(i + 1) \o Text(i + 4)),
                       ReplaceWith(Text(i) \o Text(i + 3) \o Text(i + 4))>>
            /\ Len(lints[n].suggestions) \in {1, 2}
            /\ Len(lints[n].suggestions) = 2
                => lints[n].suggestions[1] # lints[n].suggestions[2]

\* C10 happens: two lints, one with one suggestion and one with two
LintShapeWitness ==
    /\ pc = "done"
    /\ \E n \in DOMAIN lints, m \in DOMAIN lints :
        /\ Len(lints[n].suggestions) = 1
        /\ Len(lints[m].suggestions) = 2

----------------------------------------------------------------------------
(* Properties of linting again *)

\* the lints have none that starts at the offset
NoLintAt(lint_list, offset) ==
    \A n \in DOMAIN lint_list : lint_list[n].span.start # offset

\* C11: after a suggestion of a lint has replaced the span of the lint, lint
\* on the resulting document emits no lint that starts where the adjective
\* of that lint starts, whatever follows the article.
FixedIsNotLintedAgain ==
    fixed # <<>>
    => /\ document = fixed[1].document => NoLintAt(lints, fixed[1].start)
       /\ \A k \in DOMAIN calls :
            calls[k].document = fixed[1].document
            => NoLintAt(calls[k].lints, fixed[1].start)

\* lint has returned from the fixed document, whose article is followed by
\* more tokens, one more adjective of which is still linted
FixedIsNotLintedAgainWitness ==
    /\ pc = "done"
    /\ fixed # <<>>
    /\ document = fixed[1].document
    /\ lints # <<>>
    /\ \E k \in DOMAIN document.tokens :
            /\ document.tokens[k].span.start = fixed[1].start
            /\ k + 3 <= Len(document.tokens)

\* the lints are in the order of the adjectives they are for
InDocumentOrder(lint_list) ==
    \A a, b \in DOMAIN lint_list :
        a < b => lint_list[a].span.start < lint_list[b].span.start

\* C12: two calls of lint on the same document content return the same
\* lints, whatever documents lint is called on in between; the lints are in
\* ascending order of adjective index, and lint leaves the document as it is.
LintTwiceSameLints ==
    /\ [](/\ InDocumentOrder(lints)
          /\ \A k \in DOMAIN calls : InDocumentOrder(calls[k].lints)
          /\ pc = "done"
             => \A k \in DOMAIN calls :
                  calls[k].document = document => calls[k].lints = lints
          /\ pc = "lint"
             => \A k \in DOMAIN calls :
                  calls[k].document = document
                  => /\ Len(lints) <= Len(calls[k].lints)
                     /\ lints = SubSeq(calls[k].lints, 1, Len(lints)))
    /\ [][pc = "lint" => document' = document]_vars

\* lint has returned two lints from a document a second time, after it was
\* called on another document in between
LintTwiceSameLintsWitness ==
    /\ pc = "done"
    /\ Len(lints) = 2
    /\ Len(calls) = 2
    /\ calls[1].document = document
    /\ calls[2].document # document

====
